---- MODULE Spec2Model ----
(***************************************************************************)
(* Task orchestration engine of the ai-automation queue service:           *)
(*   - SimpleJobQueue (add / startProcessing / processJob /                *)
(*     processAutomationJob) of src/queue/src/gemini-service.ts,           *)
(*   - the persistence layer DatabaseManager of src/queue/src/database.ts  *)
(*     (createTask / createAttempt / updateTaskStatus / getTask),          *)
(*   - the HTTP handlers POST /tasks, POST /tasks/:taskId/chat and         *)
(*     POST /tasks/:taskId/continue, and DELETE /tasks/:taskId of the API  *)
(*     server that shares the database.                                    *)
(*                                                                         *)
(* Node.js runs every handler on one thread: the code between two awaits   *)
(* is atomic.  Each action below is "the awaited call returns (or throws)  *)
(* and the code runs on to its next await".                                *)
(***************************************************************************)
EXTENDS Integers, Sequences, FiniteSets, TLC

(* ------------------------------ bounds -------------------------------- *)
\* weight of the events the environment produces in a behaviour.  A request
\* (POST /tasks, POST /tasks/:taskId/continue, POST /tasks/:taskId/chat), a
\* database call that throws and a one-hour retention timer that expires
\* weigh EventWeight each, as does a DELETE /tasks/:taskId; a generator or
\* executor failure, of which a run has at most maxAttempts anyway, weighs
\* FaultWeight.
MaxEvents == 12
\* number of tasks created by POST /tasks
MaxTasks == 2
\* largest attempt number for which the retry delay is computed
MaxDelayAttempt == 6

(* ------------------------- program constants -------------------------- *)
maxConcurrent == 2
MaxAttempts == 3

(* ------------------------------ values -------------------------------- *)
\* Texts (error messages, code strings) are triples <<kind, prompt, attempt>>:
\* the prompt of the run and the attempt that produced a text tell the
\* texts of different runs and attempts apart.
Null == <<"null", "", 0>>
UnknownExecutionError == <<"Unknown execution error", "", 0>>
AllAttemptsFailed == <<"All attempts failed", "", 0>>
ChatCode == <<"Chat: message", "", 0>>
UnknownError == <<"Unknown error", "", 0>>
GenError(p, a) == <<"generation error", p, a>>
ExecError(p, a) == <<"execution error", p, a>>
DbError(p, a) == <<"database error", p, a>>
Code(p, a) == <<"code", p, a>>

\* JavaScript truthiness of a text value (null/undefined/"" are falsy)
Truthy(v) == v # Null

\* executionResult payloads: the worker's answer {success, error?}
NoResult == [kind |-> "null", error |-> Null]
ChatResult == [kind |-> "chat", error |-> Null]
ChatPlaceholder == [kind |-> "chat placeholder", error |-> Null]
ExecSuccess == [kind |-> "success", error |-> Null]
ExecFailure(e) == [kind |-> "failure", error |-> e]

\* absent attemptCount in the data argument of updateTaskStatus
NoCount == -1

TaskIds == 1..MaxTasks
AttemptNumbers == 1..(MaxAttempts + 1)

VARIABLES
  jobs,                \* SimpleJobQueue.jobs: job table, in insertion order
  processing,          \* SimpleJobQueue.processing: a drain loop is active
  loops,               \* number of startProcessing calls that have not returned
  currentlyProcessing, \* SimpleJobQueue.currentlyProcessing
  run,                 \* per job: position and locals of processAutomationJob
  nTasks,              \* number of task rows created so far
  tasks,               \* table automation_tasks, by task id
  attempts,            \* table automation_attempts, by (task id, attempt number)
  logs,                \* table automation_logs, by task id, in timestamp order
  events               \* weight of the environment events so far (see MaxEvents)

vars == <<jobs, processing, loops, currentlyProcessing, run, nTasks, tasks, attempts,
          logs, events>>

(* --------------------------- database rows ---------------------------- *)
NoTask == [exists |-> FALSE, status |-> "none", attempt_count |-> 0,
           generated_code |-> Null, execution_result |-> NoResult,
           error_message |-> Null]

\* INSERT INTO automation_tasks: status DEFAULT 'pending', attempt_count DEFAULT 0
NewTask == [exists |-> TRUE, status |-> "pending", attempt_count |-> 0,
            generated_code |-> Null, execution_result |-> NoResult,
            error_message |-> Null]

NoRow == [exists |-> FALSE, status |-> "none", generated_code |-> Null,
          execution_result |-> NoResult, error_message |-> Null]

\* the data argument of updateTaskStatus; absent keys are Null / NoResult / NoCount
NoData == [generatedCode |-> Null, executionResult |-> NoResult,
           errorMessage |-> Null, attemptCount |-> NoCount,
           lastCode |-> Null, chatEnabled |-> FALSE]

\* DatabaseManager.updateTaskStatus: only the keys generatedCode,
\* executionResult, errorMessage and attemptCount of data reach the row
\* (lastCode and chatEnabled are not read); UPDATE touches an existing row only.
UpdateTaskStatus(ts, t, status, data) ==
  IF ~ts[t].exists THEN ts
  ELSE [ts EXCEPT ![t] =
         [exists |-> TRUE,
          status |-> status,
          attempt_count |-> IF data.attemptCount # NoCount
                            THEN data.attemptCount ELSE ts[t].attempt_count,
          generated_code |-> IF Truthy(data.generatedCode)
                             THEN data.generatedCode ELSE ts[t].generated_code,
          execution_result |-> IF data.executionResult # NoResult
                               THEN data.executionResult
                               ELSE ts[t].execution_result,
          error_message |-> IF Truthy(data.errorMessage)
                            THEN data.errorMessage ELSE ts[t].error_message]]

\* DatabaseManager.createAttempt: INSERT ... ON CONFLICT (task_id,
\* attempt_number) DO UPDATE SET every column = EXCLUDED: the row is replaced.
\* CreateAttempt keeping the stored value of a column the caller omits
CreateAttempt_KeepOmitted(as, t, n, status, code, result, err) ==
  [as EXCEPT ![t][n] =
     [exists |-> TRUE, status |-> status,
      generated_code |-> IF code = Null THEN @.generated_code ELSE code,
      execution_result |-> IF result = NoResult THEN @.execution_result
                           ELSE result,
      error_message |-> IF err = Null THEN @.error_message ELSE err]]

CreateAttempt(as, t, n, status, code, result, err) ==
  [as EXCEPT ![t][n] =
     [exists |-> TRUE, status |-> status, generated_code |-> code,
      execution_result |-> result, error_message |-> err]]

\* FOREIGN KEY (task_id) REFERENCES automation_tasks(task_id): an attempt
\* row can be inserted only for a task row that exists; otherwise the
\* INSERT of createAttempt throws
InsertAllowed(ts, t) == ts[t].exists

EventWeight == 3
FaultWeight == 2

\* one more environment event of weight w, within the bound
Cost(w) ==
  /\ events + w <= MaxEvents
  /\ events' = events + w

\* a request, a database throw or a retention timer
Event == Cost(EventWeight)

\* a generator or executor call returns its result (ok) or fails (~ok)
Fault(ok) == IF ok THEN events' = events ELSE Cost(FaultWeight)

\* a call of DatabaseManager.query returns (ok) or throws (~ok)
DbCall(ok) == IF ok THEN events' = events ELSE Event

(* ------------------------------- queue -------------------------------- *)
JobIds == DOMAIN jobs

\* NewJob entered into the table as already being processed
NewJob_Started(t, p) == [task |-> t, prompt |-> p, maxAttempts |-> MaxAttempts,
                         status |-> "processing", error |-> Null, inMap |-> TRUE,
                         completedAt |-> FALSE]

\* the job object built by add: {id: uuidv4(), type, data, status: "pending"}
NewJob(t, p) == [task |-> t, prompt |-> p, maxAttempts |-> MaxAttempts,
                 status |-> "pending", error |-> Null, inMap |-> TRUE,
                 completedAt |-> FALSE]

\* position (pc) and locals of processAutomationJob before the job is
\* dispatched, followed by the record of what has happened in the run:
\*   sawSuccess  the executor reported success for some attempt
\*   firstSuccess  the first attempt for which it did (0: none)
\*   failures    number of attempts in which the generator or executor failed
\*   dbFail      some database call of the run threw
\*   loopDbFail  a database call inside the attempt loop threw
\*   fatal       the outer catch was entered
\*   final       the task status written by the last update of the run
\*   recorded    the last attempt whose final record ("completed" or
\*               "failed") the run has written (0: none)
\* retryDelay is the duration (ms) of the retry timer the run is waiting on,
\* 0 when it waits on none.  waiting is the length of pendingJobs at the
\* moment the job was dispatched.
IdleRun == [pc |-> "idle", attempt |-> 0, lastError |-> Null, lastCode |-> Null,
            generatedCode |-> Null, executionResult |-> NoResult,
            caught |-> Null, retryDelay |-> 0, waiting |-> 0,
            sawSuccess |-> FALSE, firstSuccess |-> 0, failures |-> 0, dbFail |-> FALSE,
            loopDbFail |-> FALSE, fatal |-> FALSE, final |-> "none",
            recorded |-> 0]

\* Array.from(this.jobs.values()).filter(job => job.status === "pending")
PendingJobs(js) == {i \in DOMAIN js : js[i].inMap /\ js[i].status = "pending"}

\* FirstPending taking the last element of pendingJobs
FirstPending_Last(js) == CHOOSE i \in PendingJobs(js) : \A k \in PendingJobs(js) : i >= k

\* pendingJobs[0]: the Map iterates in insertion order
FirstPending(js) == CHOOSE i \in PendingJobs(js) : \A k \in PendingJobs(js) : i <= k

\* this.jobs.size
JobsSize(js) == Cardinality({i \in DOMAIN js : js[i].inMap})

\* LoopContinues without the test of currentlyProcessing against maxConcurrent
LoopContinues_NoLimit(js, cp) ==
  /\ JobsSize(js) > 0
  /\ PendingJobs(js) # {}

\* the while condition of startProcessing together with the break on an
\* empty pendingJobs list
LoopContinues(js, cp) ==
  /\ JobsSize(js) > 0
  /\ cp < maxConcurrent
  /\ PendingJobs(js) # {}

\* One pass of the startProcessing loop with job table js: either
\* dispatch pendingJobs[0] (processJob runs synchronously up to the first
\* await of processAutomationJob, db.updateTaskStatus(taskId,"processing"))
\* and sleep 100 ms, or leave the loop and clear this.processing.
LoopPass(js, rn, n) ==
  IF LoopContinues(js, currentlyProcessing)
  THEN LET j == FirstPending(js) IN
       /\ jobs' = [js EXCEPT ![j].status = "processing"]
       /\ run' = [rn EXCEPT ![j].pc = "updProcessing",
                             ![j].waiting = Cardinality(PendingJobs(js))]
       /\ currentlyProcessing' = currentlyProcessing + 1
       /\ processing' = TRUE
       /\ loops' = n
  ELSE /\ jobs' = js
       /\ run' = rn
       /\ currentlyProcessing' = currentlyProcessing
       /\ processing' = FALSE
       /\ loops' = n - 1

\* SimpleJobQueue.add: insert the job; start the drain loop unless one is active
\* add calling startProcessing whether or not a loop is running
Add_Unguarded(t, p) ==
  LET js == Append(jobs, NewJob(t, p))
      rn == Append(run, IdleRun)
  IN LoopPass(js, rn, loops + 1)

Add(t, p) ==
  LET js == Append(jobs, NewJob(t, p))
      rn == Append(run, IdleRun)
  IN IF ~processing
     THEN LoopPass(js, rn, loops + 1)
     ELSE /\ jobs' = js
          /\ run' = rn
          /\ UNCHANGED <<processing, loops, currentlyProcessing>>

\* the 100 ms timer of startProcessing fires: next pass of the loop
DrainWake ==
  /\ loops > 0
  /\ LoopPass(jobs, run, loops)
  /\ UNCHANGED <<nTasks, tasks, attempts, events, logs>>

\* the one-hour timer set at the end of processJob: this.jobs.delete(job.id)
PurgeJob(j) ==
  /\ j \in JobIds
  /\ jobs[j].inMap
  /\ jobs[j].status \in {"completed", "failed"}
  /\ jobs' = [jobs EXCEPT ![j].inMap = FALSE, ![j].error = Null]
  /\ run' = [run EXCEPT ![j] = [IdleRun EXCEPT !.pc = "done"]]
  /\ Event
  /\ UNCHANGED <<processing, loops, currentlyProcessing, nTasks,
                 tasks, attempts, logs>>

(* ---------------------- processAutomationJob ------------------------- *)
Task(j) == jobs[j].task

\* processAutomationJob has returned or thrown: its locals are gone;
\* final is the task status its last update wrote ("none": that update threw)
EndRun(r, final) ==
  [pc |-> "done", attempt |-> 0, lastError |-> Null, lastCode |-> Null,
   generatedCode |-> Null, executionResult |-> NoResult, caught |-> Null,
   retryDelay |-> 0, waiting |-> 0,
   sawSuccess |-> r.sawSuccess, firstSuccess |-> r.firstSuccess,
   failures |-> r.failures, dbFail |-> r.dbFail,
   loopDbFail |-> r.loopDbFail, fatal |-> r.fatal, final |-> final,
   recorded |-> 0]

\* InnerCatch going on to the next attempt without recording the failed one
InnerCatch_NoRecord(j, e, isDb) ==
  [run[j] EXCEPT !.pc = IF run[j].attempt < jobs[j].maxAttempts
                        THEN "backoff" ELSE "updAwaiting",
                 !.retryDelay = IF run[j].attempt < jobs[j].maxAttempts
                                THEN 1000 ELSE 0,
                 !.lastError = e,
                 !.dbFail = @ \/ isDb, !.loopDbFail = @ \/ isDb,
                 !.failures = IF isDb THEN @ ELSE @ + 1]

\* a db call of job j threw inside the inner try of the attempt loop:
\* the inner catch stores the error in lastError and awaits
\* db.createAttempt({status: "failed", errorMessage: lastError.message})
InnerCatch(j, e, isDb) ==
  [run[j] EXCEPT !.pc = "recFailed", !.lastError = e,
                 !.dbFail = @ \/ isDb, !.loopDbFail = @ \/ isDb,
                 !.failures = IF isDb THEN @ ELSE @ + 1]

\* a throw that leaves the attempt loop: the outer catch awaits
\* db.updateTaskStatus(taskId, "failed", {errorMessage})
OuterCatch(j, e, inLoop) ==
  [run[j] EXCEPT !.pc = "updFailed", !.caught = e, !.dbFail = TRUE,
                 !.loopDbFail = @ \/ inLoop, !.fatal = TRUE]

\* after a failed attempt: `if (attempt < maxAttempts)` wait, then the
\* for loop's attempt++; otherwise the loop ends and the exhaustion update
\* is awaited
AfterFailedAttempt(a, max) == IF a < max THEN "backoff" ELSE "updAwaiting"

\* RetryDelay with the exponent attempt instead of attempt - 1
RetryDelay_NextPower(a) ==
  LET d == 1000 * (2 ^ a) IN IF d < 10000 THEN d ELSE 10000

\* retryDelay = Math.min(1000 * Math.pow(2, attempt - 1), 10000)
RetryDelay(a) ==
  LET d == 1000 * (2 ^ (a - 1)) IN IF d < 10000 THEN d ELSE 10000

\* the timer awaited after a failed attempt: setTimeout(resolve, retryDelay)
\* under `if (attempt < maxAttempts)`, none otherwise
RetryWait(a, max) == IF a < max THEN RetryDelay(a) ELSE 0

\* processAutomationJob returns (or throws err) into processJob, which sets
\* the job's terminal status; the .finally() of startProcessing then
\* decrements currentlyProcessing.  All of it runs in the microtasks of the
\* same turn, before any timer or I/O callback.
\* FinishJob giving the job of an exhausted run the status "failed"
FinishJob_AsTask(j, status, err) ==
  /\ jobs' = [jobs EXCEPT ![j].status = IF run[j].pc = "updAwaiting"
                                        THEN "failed" ELSE status,
                          ![j].error = err, ![j].completedAt = TRUE]
  /\ currentlyProcessing' = currentlyProcessing - 1

\* completedAt: job.completedAt has been set (to the time of the call)
FinishJob(j, status, err) ==
  /\ jobs' = [jobs EXCEPT ![j].status = status, ![j].error = err,
                          ![j].completedAt = TRUE]
  /\ currentlyProcessing' = currentlyProcessing - 1

\* line 681: await db.updateTaskStatus(taskId, "processing")
UpdProcessing(j, ok) ==
  /\ j \in JobIds /\ run[j].pc = "updProcessing"
  /\ IF ok
     THEN /\ tasks' = UpdateTaskStatus(tasks, Task(j), "processing", NoData)
          /\ run' = [run EXCEPT ![j].pc =
                       IF 1 <= jobs[j].maxAttempts THEN "recProcessing"
                                                   ELSE "updAwaiting",
                                ![j].attempt = 1]
     ELSE /\ tasks' = tasks
          /\ run' = [run EXCEPT ![j] = OuterCatch(j, DbError(jobs[j].prompt, 0), FALSE)]
  /\ DbCall(ok)
  /\ UNCHANGED <<jobs, processing, loops, currentlyProcessing,
                 nTasks, attempts, logs>>

\* line 690: await db.createAttempt({taskId, attemptNumber, status: "processing"})
RecProcessing(j, ok) ==
  /\ j \in JobIds /\ run[j].pc = "recProcessing"
  /\ IF ok /\ InsertAllowed(tasks, Task(j))
     THEN /\ attempts' = CreateAttempt(attempts, Task(j), run[j].attempt,
                                       "processing", Null, NoResult, Null)
          /\ run' = [run EXCEPT ![j].pc = "generate"]
     ELSE /\ attempts' = attempts
          /\ run' = [run EXCEPT ![j] =
                       InnerCatch(j, DbError(jobs[j].prompt, run[j].attempt), TRUE)]
  /\ DbCall(ok)
  /\ UNCHANGED <<jobs, processing, loops, currentlyProcessing, nTasks, tasks, logs>>

\* GenerationErrorCatch letting the generator's error leave the attempt loop
GenerationErrorCatch_Fatal(j, e) ==
  [run[j] EXCEPT !.pc = "updFailed", !.caught = e, !.fatal = TRUE,
                 !.failures = @ + 1]

\* the catch that receives an error thrown by generateSeleniumCode
GenerationErrorCatch(j, e) == InnerCatch(j, e, FALSE)

\* line 697: await generateSeleniumCode(prompt, websiteUrl, model)
Generate(j, ok) ==
  /\ j \in JobIds /\ run[j].pc = "generate"
  /\ IF ok
     THEN run' = [run EXCEPT ![j].pc = "recExecuting",
                             ![j].generatedCode = Code(jobs[j].prompt, run[j].attempt),
                             ![j].lastCode = Code(jobs[j].prompt, run[j].attempt)]
     ELSE run' = [run EXCEPT ![j] =
                    GenerationErrorCatch(j, GenError(jobs[j].prompt, run[j].attempt))]
  /\ Fault(ok)
  /\ UNCHANGED <<jobs, processing, loops, currentlyProcessing, nTasks,
                 tasks, attempts, logs>>

\* line 705: await db.createAttempt({..., status: "executing", generatedCode})
\* RecExecuting calling the executor without writing the "executing" record
RecExecuting_NotWritten(j, ok) ==
  /\ j \in JobIds /\ run[j].pc = "recExecuting"
  /\ attempts' = attempts
  /\ run' = [run EXCEPT ![j].pc = "execute"]
  /\ DbCall(ok)
  /\ UNCHANGED <<jobs, processing, loops, currentlyProcessing, nTasks, tasks, logs>>

RecExecuting(j, ok) ==
  /\ j \in JobIds /\ run[j].pc = "recExecuting"
  /\ IF ok /\ InsertAllowed(tasks, Task(j))
     THEN /\ attempts' = CreateAttempt(attempts, Task(j), run[j].attempt,
                            "executing", run[j].generatedCode, NoResult, Null)
          /\ run' = [run EXCEPT ![j].pc = "execute"]
     ELSE /\ attempts' = attempts
          /\ run' = [run EXCEPT ![j] =
                       InnerCatch(j, DbError(jobs[j].prompt, run[j].attempt), TRUE)]
  /\ DbCall(ok)
  /\ UNCHANGED <<jobs, processing, loops, currentlyProcessing, nTasks, tasks, logs>>

\* what executeCode can return: the worker's response.data, or the failure
\* object built in its own catch (which always carries an error text)
ExecOutcomes(j, a) ==
  {ExecSuccess, ExecFailure(ExecError(jobs[j].prompt, a)), ExecFailure(Null)}

\* line 713: await executeCode(generatedCode, websiteUrl); never throws
Execute(j, res) ==
  /\ j \in JobIds /\ run[j].pc = "execute"
  /\ res \in ExecOutcomes(j, run[j].attempt)
  /\ run' = [run EXCEPT ![j].pc = "recFinal", ![j].executionResult = res,
                        ![j].sawSuccess = @ \/ (res.kind = "success"),
                        ![j].firstSuccess = IF res.kind = "success" /\ @ = 0
                                            THEN run[j].attempt ELSE @,
                        ![j].failures = IF res.kind = "success" THEN @ ELSE @ + 1]
  /\ Fault(res.kind = "success")
  /\ UNCHANGED <<jobs, processing, loops, currentlyProcessing, nTasks,
                 tasks, attempts, logs>>

\* new Error(executionResult.error || "Unknown execution error").message
ExecErrorMessage(res) ==
  IF Truthy(res.error) THEN res.error ELSE UnknownExecutionError

\* line 716: await db.createAttempt({..., status: success ? "completed" :
\* "failed", generatedCode, executionResult, errorMessage: executionResult.error})
\* and the branch on executionResult.success that follows it
RecFinal(j, ok) ==
  /\ j \in JobIds /\ run[j].pc = "recFinal"
  /\ LET r == run[j]
         succ == r.executionResult.kind = "success"
     IN IF ok /\ InsertAllowed(tasks, Task(j))
        THEN /\ attempts' = CreateAttempt(attempts, Task(j), r.attempt,
                               IF succ THEN "completed" ELSE "failed",
                               r.generatedCode, r.executionResult,
                               r.executionResult.error)
             /\ run' = [run EXCEPT ![j] =
                   IF succ
                   THEN [r EXCEPT !.pc = "updCompleted",
                                  !.recorded = r.attempt]
                   ELSE [r EXCEPT
                           !.pc = AfterFailedAttempt(r.attempt, jobs[j].maxAttempts),
                           !.recorded = r.attempt,
                           !.retryDelay = RetryWait(r.attempt, jobs[j].maxAttempts),
                           !.lastError = ExecErrorMessage(r.executionResult)]]
        ELSE /\ attempts' = attempts
             /\ run' = [run EXCEPT ![j] =
                          InnerCatch(j, DbError(jobs[j].prompt, r.attempt), TRUE)]
  /\ DbCall(ok)
  /\ UNCHANGED <<jobs, processing, loops, currentlyProcessing, nTasks, tasks, logs>>

\* line 729: await db.updateTaskStatus(taskId, "completed", {generatedCode,
\* executionResult, attemptCount: attempt, executionTime}); return
UpdCompleted(j, ok) ==
  /\ j \in JobIds /\ run[j].pc = "updCompleted"
  /\ IF ok
     THEN /\ tasks' = UpdateTaskStatus(tasks, Task(j), "completed",
                        [NoData EXCEPT !.generatedCode = run[j].generatedCode,
                                       !.executionResult = run[j].executionResult,
                                       !.attemptCount = run[j].attempt])
          /\ run' = [run EXCEPT ![j] = EndRun(run[j], "completed")]
          /\ FinishJob(j, "completed", Null)
     ELSE /\ tasks' = tasks
          /\ run' = [run EXCEPT ![j] =
                       InnerCatch(j, DbError(jobs[j].prompt, run[j].attempt), TRUE)]
          /\ UNCHANGED <<jobs, currentlyProcessing>>
  /\ DbCall(ok)
  /\ UNCHANGED <<processing, loops, nTasks, attempts, logs>>

\* lines 755 / 773: the retry timer fires; attempt++ and the loop test
Backoff(j) ==
  /\ j \in JobIds /\ run[j].pc = "backoff"
  /\ run' = [run EXCEPT ![j].attempt = @ + 1,
                        ![j].retryDelay = 0,
                        ![j].pc = IF run[j].attempt + 1 <= jobs[j].maxAttempts
                                  THEN "recProcessing" ELSE "updAwaiting",
                        ![j].generatedCode = Null,
                        ![j].executionResult = NoResult]
  /\ UNCHANGED <<jobs, processing, loops, currentlyProcessing, nTasks,
                 tasks, attempts, events, logs>>

\* line 763 (inner catch): await db.createAttempt({..., status: "failed",
\* errorMessage: lastError.message}); a throw here leaves the loop
\* RecFailed going on without writing the record of the failed attempt
RecFailed_NotWritten(j, ok) ==
  /\ j \in JobIds /\ run[j].pc = "recFailed"
  /\ attempts' = attempts
  /\ run' = [run EXCEPT
               ![j].pc =
                 AfterFailedAttempt(run[j].attempt, jobs[j].maxAttempts),
               ![j].retryDelay =
                 RetryWait(run[j].attempt, jobs[j].maxAttempts)]
  /\ DbCall(ok)
  /\ UNCHANGED <<jobs, processing, loops, currentlyProcessing, nTasks, tasks, logs>>

RecFailed(j, ok) ==
  /\ j \in JobIds /\ run[j].pc = "recFailed"
  /\ IF ok /\ InsertAllowed(tasks, Task(j))
     THEN /\ attempts' = CreateAttempt(attempts, Task(j), run[j].attempt,
                            "failed", Null, NoResult, run[j].lastError)
          /\ run' = [run EXCEPT
                       ![j].pc =
                         AfterFailedAttempt(run[j].attempt, jobs[j].maxAttempts),
                       ![j].retryDelay =
                         RetryWait(run[j].attempt, jobs[j].maxAttempts),
                       ![j].recorded = run[j].attempt]
     ELSE /\ attempts' = attempts
          /\ run' = [run EXCEPT ![j] =
                       OuterCatch(j, DbError(jobs[j].prompt, run[j].attempt), TRUE)]
  /\ DbCall(ok)
  /\ UNCHANGED <<jobs, processing, loops, currentlyProcessing, nTasks, tasks, logs>>

\* line 779: await db.updateTaskStatus(taskId, "awaiting_chat", {errorMessage:
\* lastError?.message || "All attempts failed", attemptCount: maxAttempts,
\* lastCode, chatEnabled: true})
UpdAwaiting(j, ok) ==
  /\ j \in JobIds /\ run[j].pc = "updAwaiting"
  /\ IF ok
     THEN /\ tasks' = UpdateTaskStatus(tasks, Task(j), "awaiting_chat",
                        [NoData EXCEPT
                           !.errorMessage = IF Truthy(run[j].lastError)
                                            THEN run[j].lastError
                                            ELSE AllAttemptsFailed,
                           !.attemptCount = jobs[j].maxAttempts,
                           !.lastCode = run[j].lastCode,
                           !.chatEnabled = TRUE])
          /\ run' = [run EXCEPT ![j] = EndRun(run[j], "awaiting_chat")]
          /\ FinishJob(j, "completed", Null)
     ELSE /\ tasks' = tasks
          /\ run' = [run EXCEPT ![j] = OuterCatch(j, DbError(jobs[j].prompt, 0), FALSE)]
          /\ UNCHANGED <<jobs, currentlyProcessing>>
  /\ DbCall(ok)
  /\ UNCHANGED <<processing, loops, nTasks, attempts, logs>>

\* line 791 (outer catch): await db.updateTaskStatus(taskId, "failed",
\* {errorMessage}).  When it succeeds processAutomationJob returns normally
\* and processJob goes on to job.status = "completed"; when it throws, the
\* catch of processJob sets job.status = "failed" and job.error.
UpdFailed(j, ok) ==
  /\ j \in JobIds /\ run[j].pc = "updFailed"
  /\ IF ok
     THEN /\ tasks' = UpdateTaskStatus(tasks, Task(j), "failed",
                        [NoData EXCEPT !.errorMessage = run[j].caught])
          /\ FinishJob(j, "completed", Null)
     ELSE /\ tasks' = tasks
          /\ FinishJob(j, "failed", DbError(jobs[j].prompt, 0))
  /\ run' = [run EXCEPT ![j] = EndRun(run[j], IF ok THEN "failed" ELSE "none")]
  /\ DbCall(ok)
  /\ UNCHANGED <<processing, loops, nTasks, attempts, logs>>

(* ------------------------ generateSeleniumCode ------------------------ *)
\* the model selectors a run can pass: the three named models, and "gemini",
\* the default of processAutomationJob and of the continuation handler
GeminiSelectors == {"gemini-2.0-flash", "gemini-2.5-preview"}
Selectors == GeminiSelectors \cup {"gpt-4o-mini", "gemini"}

\* the values of config.defaultModel
DefaultModels == GeminiSelectors \cup {"gpt-4o-mini"}

NoService == "No AI service available for code generation"

\* one backend call: the backend is invoked and returns code or throws
Invoke(backend, ok) ==
  [invoked |-> <<backend>>,
   outcome |-> IF ok THEN "code" ELSE backend \o " error"]

\* generateSeleniumCode(prompt, websiteUrl, model) with config.defaultModel,
\* geminiService and openaiClient initialised or null, and the outcome of a
\* call to either backend: the backends invoked, in order, and the result
\* (gemini, openai: geminiService, openaiClient are initialised)
GenerateSeleniumCode(model, defaultModel, gemini, openai, geminiOk, openaiOk) ==
  IF model \in GeminiSelectors /\ gemini
  THEN IF geminiOk
       THEN Invoke("gemini", TRUE)
       ELSE IF openai
            THEN [invoked |-> <<"gemini", "openai">>,
                  outcome |-> Invoke("openai", openaiOk).outcome]
            ELSE Invoke("gemini", FALSE)
  ELSE IF model = "gpt-4o-mini" /\ openai
  THEN Invoke("openai", openaiOk)
  ELSE IF defaultModel = "gpt-4o-mini" /\ openai
  THEN Invoke("openai", openaiOk)
  ELSE IF gemini
  THEN Invoke("gemini", geminiOk)
  ELSE [invoked |-> <<>>, outcome |-> NoService]

(* --------------------------- HTTP handlers ---------------------------- *)
\* POST /tasks: await db.createTask(...) (a throw answers 500 and queues
\* nothing), then await jobQueue.add("automation", {..., maxAttempts: 3})
PostTask(ok) ==
  /\ nTasks < MaxTasks
  /\ IF ok
     THEN /\ nTasks' = nTasks + 1
          /\ tasks' = [tasks EXCEPT ![nTasks + 1] = NewTask]
          /\ Add(nTasks + 1, "original")
     ELSE UNCHANGED <<nTasks, tasks, jobs, run, processing, loops, currentlyProcessing>>
  /\ Event
  /\ UNCHANGED <<attempts, logs>>

\* ContinuePrompt submitting the prompt the task was created with
ContinuePrompt_Original(refinedPrompt) == "original"

\* the prompt in the job data of a continuation: `prompt: refinedPrompt`
ContinuePrompt(refinedPrompt) == refinedPrompt

\* POST /tasks/:taskId/continue: 404 for an unknown task; otherwise
\* await db.updateTaskStatus(taskId, "processing") whatever the current
\* status is (a throw answers 500), then jobQueue.add with the refined prompt
PostContinue(t, ok) ==
  /\ t \in TaskIds /\ tasks[t].exists
  /\ IF ok
     THEN /\ tasks' = UpdateTaskStatus(tasks, t, "processing", NoData)
          /\ Add(t, ContinuePrompt("refined"))
     ELSE UNCHANGED <<tasks, jobs, run, processing, loops, currentlyProcessing>>
  /\ Event
  /\ UNCHANGED <<nTasks, attempts, logs>>

\* taskContext of the chat handler, built from the row returned by getTask:
\* lastError: task.result?.errorMessage || "Unknown error" and
\* lastCode: task.result?.lastCode || "".  The row's keys are the column
\* names (execution_result, error_message, generated_code, ...): it has no
\* key `result`, so both fall back to their defaults.
ChatContext(task) == [lastError |-> UnknownError, lastCode |-> Null]

\* ChatAttemptNumber reading the attempt counter column of the task row
ChatAttemptNumber_FromCount(task) == task.attempt_count + 1

\* attemptNumber: (task.attempts || 0) + 1 where task is the row returned by
\* getTask; automation_tasks has no column `attempts`, so this is 0 + 1
ChatAttemptNumber(task) == 0 + 1

\* what generateChatResponse does: it returns the backend's reply; it
\* throws (backend error, no client for the model); or, the backend having
\* answered without content, it returns the text
\* "Sorry, I couldn't generate a response." (generateChatWithOpenAI)
ChatOutcomes == {"reply", "throws", "empty"}

\* the chatResponse stored with the chat row
ChatResponse(chat) == IF chat = "reply" THEN ChatResult ELSE ChatPlaceholder

\* status of the HTTP answer of the chat handler: res.json(...) at the end
\* of the try block, res.status(500) in its catch
ChatStatus(chat, dbOk) == IF chat # "throws" /\ dbOk THEN 200 ELSE 500

\* POST /tasks/:taskId/chat: 404 for an unknown task; await
\* generateChatResponse (a throw answers 500), then await db.createAttempt(
\* {attemptNumber, status: "chat_interaction", generatedCode: `Chat: ...`,
\* executionResult: {chatResponse}}) (a throw answers 500)
PostChat(t, chat, dbOk) ==
  /\ t \in TaskIds /\ tasks[t].exists
  /\ chat \in ChatOutcomes
  /\ IF chat # "throws" /\ dbOk
     THEN attempts' = CreateAttempt(attempts, t, ChatAttemptNumber(tasks[t]),
                         "chat_interaction", ChatCode, ChatResponse(chat), Null)
     ELSE attempts' = attempts
  /\ Event
  /\ UNCHANGED <<jobs, processing, loops, currentlyProcessing, run,
                 nTasks, tasks, logs>>

\* DELETE /tasks/:taskId of the API server: 404 for an unknown task;
\* DELETE FROM automation_tasks WHERE task_id = $1 (the attempt rows go with
\* it: ON DELETE CASCADE), then DELETE FROM automation_logs; a throw answers
\* 500.  The handler does not touch the job queue.
DeleteTask(t, ok) ==
  /\ t \in TaskIds /\ tasks[t].exists
  /\ IF ok
     THEN /\ tasks' = [tasks EXCEPT ![t] = NoTask]
          /\ attempts' = [attempts EXCEPT ![t] = [n \in AttemptNumbers |-> NoRow]]
     ELSE UNCHANGED <<tasks, attempts>>
  /\ logs' = IF ok THEN [logs EXCEPT ![t] = <<>>] ELSE logs
  /\ Event
  /\ UNCHANGED <<jobs, processing, loops, currentlyProcessing, run, nTasks>>

(* ---------------------------- specification --------------------------- *)
Init ==
  /\ jobs = <<>>
  /\ processing = FALSE
  /\ loops = 0
  /\ currentlyProcessing = 0
  /\ run = <<>>
  /\ nTasks = 0
  /\ tasks = [t \in TaskIds |-> NoTask]
  /\ attempts = [t \in TaskIds |-> [n \in AttemptNumbers |-> NoRow]]
  /\ logs = [t \in TaskIds |-> <<>>]
  /\ events = 0

Next ==
  \/ \E ok \in BOOLEAN : PostTask(ok)
  \/ \E t \in TaskIds, ok \in BOOLEAN : PostContinue(t, ok)
  \/ \E t \in TaskIds, chat \in ChatOutcomes, dbOk \in BOOLEAN : PostChat(t, chat, dbOk)
  \/ \E t \in TaskIds, ok \in BOOLEAN : DeleteTask(t, ok)
  \/ DrainWake
  \/ \E j \in JobIds, ok \in BOOLEAN : UpdProcessing(j, ok)
  \/ \E j \in JobIds, ok \in BOOLEAN : RecProcessing(j, ok)
  \/ \E j \in JobIds, ok \in BOOLEAN : Generate(j, ok)
  \/ \E j \in JobIds, ok \in BOOLEAN : RecExecuting(j, ok)
  \/ \E j \in JobIds : \E res \in ExecOutcomes(j, run[j].attempt) : Execute(j, res)
  \/ \E j \in JobIds, ok \in BOOLEAN : RecFinal(j, ok)
  \/ \E j \in JobIds, ok \in BOOLEAN : UpdCompleted(j, ok)
  \/ \E j \in JobIds : Backoff(j)
  \/ \E j \in JobIds, ok \in BOOLEAN : RecFailed(j, ok)
  \/ \E j \in JobIds, ok \in BOOLEAN : UpdAwaiting(j, ok)
  \/ \E j \in JobIds, ok \in BOOLEAN : UpdFailed(j, ok)
  \/ \E j \in JobIds : PurgeJob(j)

Spec == Init /\ [][Next]_vars

(* ------------------------------- claims ------------------------------- *)
ProcessingJobs == {j \in JobIds : jobs[j].status = "processing"}

\* C1: whatever the interleaving of submissions and completions, at most
\* maxConcurrent (2) jobs have status "processing" at any instant.
C1_AtMostMaxConcurrentProcessing ==
  Cardinality(ProcessingJobs) <= maxConcurrent

\* C1 witness: both slots are taken and a further job waits in the queue
C1_Witness ==
  /\ Cardinality(ProcessingJobs) = maxConcurrent
  /\ PendingJobs(jobs) # {}

\* C2: whenever a processing slot is free and a pending job exists, a
\* pending job is started (a drain loop is active to start it), so that
\* every submitted job reaches a terminal status.
C2_PendingJobIsStarted ==
  (PendingJobs(jobs) # {} /\ currentlyProcessing < maxConcurrent) => processing


\* positions of processAutomationJob inside the attempt loop that start or
\* continue an attempt
AttemptPcs == {"recProcessing", "generate", "recExecuting", "execute",
               "recFinal", "updCompleted", "backoff"}

\* C3: once the executor has reported success for an attempt of a run, the
\* run only records that attempt and completes the task: no further
\* generation, execution or attempt happens, and the run ends with the task
\* status "completed".
C3_SuccessEndsRun ==
  \A j \in JobIds :
    run[j].sawSuccess =>
      /\ run[j].pc \in {"recFinal", "updCompleted", "done"}
      /\ run[j].pc = "done" => run[j].final = "completed"

\* the attempt rows that exist for task t
Rows(as, t) == {n \in AttemptNumbers : as[t][n].exists}

\* C4: when a run ends after the generator or the executor failed in each
\* of its M = maxAttempts attempts, there are exactly M attempt records, all
\* "failed", the task is "awaiting_chat", and the task's error equals the
\* error of attempt M.
C4_ExhaustedRun ==
  [][\A j \in JobIds :
       (run[j].pc # "done" /\ run'[j].pc = "done"
          /\ run[j].failures = jobs[j].maxAttempts) =>
         LET t == Task(j)
             M == jobs[j].maxAttempts
         IN /\ Rows(attempts', t) = 1..M
            /\ \A n \in 1..M : attempts'[t][n].status = "failed"
            /\ tasks'[t].status = "awaiting_chat"
            /\ tasks'[t].error_message = attempts'[t][M].error_message]_vars

\* the edges of the task state machine
AllowedEdges ==
  {<<"pending", "processing">>, <<"processing", "completed">>,
   <<"processing", "awaiting_chat">>, <<"processing", "failed">>,
   <<"awaiting_chat", "processing">>}

\* C5: a task's status changes only along the edges of the state machine,
\* and a task is created "pending" with no attempt records.
C5_OnlyAllowedEdges ==
  [][\A t \in TaskIds :
       /\ (tasks[t].exists /\ tasks'[t].status # tasks[t].status) =>
            <<tasks[t].status, tasks'[t].status>> \in AllowedEdges
       /\ (~tasks[t].exists /\ tasks'[t].exists) =>
            (tasks'[t].status = "pending" /\ Rows(attempts', t) = {})]_vars

\* C6: once a task is "completed", no operation changes its task row
\* (status, final code, final result, attempt count) or its attempt records.
C6_CompletedIsTerminal ==
  [][\A t \in TaskIds :
       tasks[t].status = "completed" =>
         (tasks'[t] = tasks[t] /\ attempts'[t] = attempts[t])]_vars

\* C7: after a database call inside the attempt loop has thrown, the run
\* starts no further attempt and does not go on to the exhaustion update:
\* it only makes its way to the "failed" status.
C7_PersistenceFailureIsFatal ==
  \A j \in JobIds :
    run[j].loopDbFail =>
      /\ run[j].pc \in {"recFailed", "updFailed", "done"}
      /\ run[j].pc = "done" => run[j].final \in {"failed", "none"}

C9_FatalRunFailsJob ==
  \A j \in JobIds :
    (run[j].pc = "done" /\ run[j].final = "failed") =>
      (jobs[j].status = "failed" /\ jobs[j].error # Null)

\* C10: no task is left in "processing": when the queue has come to rest
\* (no drain loop active, no job running) no task has status "processing",
\* and a task all of whose jobs are terminal is not "processing".
C10_NoTaskStuckInProcessing ==
  \A t \in TaskIds :
    tasks[t].status = "processing" =>
      /\ processing \/ currentlyProcessing > 0
      /\ \E j \in JobIds :
           jobs[j].task = t /\ jobs[j].status \in {"pending", "processing"}

\* C11: for every task (maxAttempts = M = 3) the number of attempt records
\* stored for the task never exceeds M and the task's attempt counter never
\* exceeds M, the rows written by the chat endpoint included.
C11_AtMostMaxAttemptsRecords ==
  \A t \in TaskIds :
    /\ Cardinality(Rows(attempts, t)) <= MaxAttempts
    /\ tasks[t].attempt_count <= MaxAttempts

\* C11 witness: a task has M attempt records and attempt counter M, and the
\* chat endpoint has written one of the records
C11_Witness ==
  \E t \in TaskIds :
    /\ Cardinality(Rows(attempts, t)) = MaxAttempts
    /\ tasks[t].attempt_count = MaxAttempts
    /\ \E n \in AttemptNumbers : attempts[t][n].status = "chat_interaction"

\* C12: the attempt numbers recorded for a task are exactly 1..k for some
\* k >= 0, without gaps, whatever generation, execution and persistence
\* outcomes occurred.
C12_AttemptNumbersContiguous ==
  \A t \in TaskIds :
    \E k \in 0..(MaxAttempts + 1) : Rows(attempts, t) = 1..k

\* C12 witness: a run in which a database call of the attempt loop threw
\* has gone on to a second attempt, and the task has the records 1..2
C12_Witness ==
  \E j \in JobIds :
    /\ run[j].loopDbFail
    /\ run[j].attempt = 2
    /\ Rows(attempts, Task(j)) = 1..2

\* the delays of the retry policy: 1000, 2000, 4000, 8000, then 10000
BackoffMs(i) ==
  CASE i = 1 -> 1000
    [] i = 2 -> 2000
    [] i = 3 -> 4000
    [] i = 4 -> 8000
    [] OTHER -> 10000

\* C13: after a failed attempt i < maxAttempts (generator or executor
\* failure alike) the run waits exactly min(1000 * 2^(i-1), 10000) ms and
\* then starts attempt i+1; after a failed attempt i = maxAttempts it does
\* not wait; the delay computed for attempt i is 1000, 2000, 4000, 8000 and
\* 10000 for every i >= 5.
C13_BackoffDelay ==
  [][/\ \A i \in 1..MaxDelayAttempt : RetryDelay(i) = BackoffMs(i)
     /\ \A j \in JobIds :
          LET r == run[j]
              q == run'[j]
          IN /\ (r.pc \in {"recFinal", "recFailed"}
                   /\ q.pc \in {"backoff", "updAwaiting"}) =>
                  IF r.attempt < jobs[j].maxAttempts
                  THEN q.pc = "backoff" /\ q.retryDelay = BackoffMs(r.attempt)
                  ELSE q.pc = "updAwaiting" /\ q.retryDelay = 0
             /\ (r.pc = "backoff" /\ q.pc # "backoff") =>
                  /\ r.retryDelay = BackoffMs(r.attempt)
                  /\ q.pc = "recProcessing"
                  /\ q.attempt = r.attempt + 1]_vars

\* C13 witness: a run whose generator or executor failed in attempts 1 and
\* 2 is waiting for the second retry timer
C13_Witness ==
  \E j \in JobIds :
    /\ run[j].pc = "backoff"
    /\ run[j].attempt = 2
    /\ run[j].failures = 2
    /\ run[j].retryDelay = 2000

\* C14: a continuation submitted for a task in "awaiting_chat" sets the
\* task back to "processing" and queues a job for the same task with the
\* refined prompt; the run of a continuation job starts its attempt loop at
\* attempt 1 and every attempt gives the refined prompt to the generator.
C14_ContinuationRestartsLoop ==
  [][/\ \A t \in TaskIds :
          (tasks[t].status = "awaiting_chat" /\ Len(jobs') = Len(jobs) + 1
             /\ jobs'[Len(jobs')].task = t) =>
            /\ tasks'[t].status = "processing"
            /\ nTasks' = nTasks
            /\ jobs'[Len(jobs')].prompt = "refined"
     /\ \A j \in JobIds :
          LET r == run[j]
              q == run'[j]
          IN jobs[j].prompt = "refined" =>
               /\ (r.pc = "updProcessing" /\ q.pc \notin {"updProcessing", "updFailed"}) =>
                    (q.pc = "recProcessing" /\ q.attempt = 1)
               /\ (r.pc = "recProcessing" /\ q.pc = "generate") =>
                    attempts'[Task(j)][r.attempt].status = "processing"
               /\ (r.pc = "generate" /\ q.pc = "recExecuting") =>
                    q.generatedCode = Code("refined", r.attempt)
               /\ (r.pc = "generate" /\ q.pc = "recFailed") =>
                    q.lastError = GenError("refined", r.attempt)]_vars

\* C14 witness: a run of the task ended in "awaiting_chat", a continuation
\* was submitted, and its run has generated the code of attempt 1 from the
\* refined prompt
C14_Witness ==
  \E j \in JobIds, j0 \in JobIds :
    /\ j0 < j /\ jobs[j0].task = jobs[j].task
    /\ run[j0].pc = "done" /\ run[j0].final = "awaiting_chat"
    /\ jobs[j].prompt = "refined"
    /\ run[j].attempt = 1
    /\ run[j].generatedCode = Code("refined", 1)
    /\ tasks[Task(j)].status = "processing"

\* C15: when a run whose first successful execution happened on attempt k
\* ends, exactly the attempt records 1..k exist, records 1..k-1 are
\* "failed" and record k is "completed", and the task is "completed" with
\* attempt count k and the code generated in attempt k as its final code.
C15_SuccessOnAttemptK ==
  [][\A j \in JobIds :
       (run[j].pc # "done" /\ run'[j].pc = "done" /\ run[j].firstSuccess > 0) =>
         LET t == Task(j)
             k == run[j].firstSuccess
         IN /\ Rows(attempts', t) = 1..k
            /\ \A n \in 1..(k - 1) : attempts'[t][n].status = "failed"
            /\ attempts'[t][k].status = "completed"
            /\ tasks'[t].status = "completed"
            /\ tasks'[t].attempt_count = k
            /\ tasks'[t].generated_code = Code(jobs[j].prompt, k)]_vars

\* C16: the exhaustion update leaves in the task record the status
\* "awaiting_chat", the last error, the last code generated in the run and
\* the attempt count maxAttempts, and the context a chat request builds from
\* that record carries that last code and last error.
C16_ExhaustionPersistsContext ==
  [][\A j \in JobIds :
       (run[j].pc = "updAwaiting" /\ run'[j].pc = "done") =>
         LET t == Task(j)
             r == run[j]
         IN /\ tasks'[t].status = "awaiting_chat"
            /\ tasks'[t].attempt_count = jobs[j].maxAttempts
            /\ Truthy(r.lastError) => tasks'[t].error_message = r.lastError
            /\ Truthy(r.lastCode) =>
                 /\ tasks'[t].generated_code = r.lastCode
                 /\ ChatContext(tasks'[t]).lastCode = r.lastCode
            /\ ChatContext(tasks'[t]).lastError = tasks'[t].error_message]_vars

\* C17: pending jobs are started in arrival order: when a job goes from
\* "pending" to "processing" no job submitted before it is still "pending".
C17_StartedInArrivalOrder ==
  [][\A j \in DOMAIN jobs' :
       (jobs'[j].status = "processing"
          /\ (j \in JobIds => jobs[j].status = "pending")) =>
         \A i \in DOMAIN jobs' : i < j => jobs'[i].status # "pending"]_vars

\* C17 witness: a job has just been dispatched out of several pending jobs
\* and a job submitted after it is still pending
C17_Witness ==
  \E j \in JobIds, i \in JobIds :
    /\ j < i
    /\ run[j].pc = "updProcessing" /\ run[j].waiting >= 2
    /\ jobs[i].status = "pending"

\* the jobs of task t that are being processed
ActiveJobs(t) == {j \in JobIds : jobs[j].task = t /\ jobs[j].status = "processing"}

\* C18: while a job is "processing" for a task, only that job's run writes
\* the task's row and attempt records: no two jobs of one task are
\* "processing" together, and a step that changes the row or the records
\* is a step of the active job's run, not of the continuation or chat
\* endpoint.
C18_ExclusiveOwnership ==
  [][\A t \in TaskIds :
       ActiveJobs(t) # {} =>
         /\ Cardinality(ActiveJobs(t)) = 1
         /\ (tasks'[t] # tasks[t] \/ attempts'[t] # attempts[t]) =>
              \E j \in ActiveJobs(t) : run'[j] # run[j]]_vars

\* C19: a chat request does not change task state and executes nothing:
\* the task rows, the attempt records that exist, the job table and the
\* runs (where the executor is called) are the same after it.
C19_ChatLeavesStateAlone ==
  [][(\E t \in TaskIds, chat \in ChatOutcomes, dbOk \in BOOLEAN :
        PostChat(t, chat, dbOk)) =>
       /\ tasks' = tasks
       /\ jobs' = jobs
       /\ run' = run
       /\ \A t \in TaskIds : \A n \in AttemptNumbers :
            attempts[t][n].exists => attempts'[t][n] = attempts[t][n]]_vars

\* C20: when the chat backend does not produce a reply (it throws, or it
\* answers without content), the caller gets an error response and no task
\* row and no attempt record is created or changed.
C20_ChatFailureChangesNothing ==
  [][\A t \in TaskIds, dbOk \in BOOLEAN : \A chat \in {"throws", "empty"} :
       PostChat(t, chat, dbOk) =>
         /\ ChatStatus(chat, dbOk) = 500
         /\ tasks' = tasks
         /\ attempts' = attempts]_vars

\* C21: add enqueues the job as "pending" and returns without waiting for
\* a run: in the step that adds a job, the new job is either still
\* "pending", or it was dispatched and its run stands at its first await;
\* no run takes a step of its own, and no job ends.
C21_AddDoesNotWaitForRun ==
  [][Len(jobs') = Len(jobs) + 1 =>
       LET n == Len(jobs') IN
       /\ \/ jobs'[n].status = "pending" /\ run'[n].pc = "idle"
          \/ jobs'[n].status = "processing" /\ run'[n].pc = "updProcessing"
       /\ attempts' = attempts
       /\ \A j \in JobIds :
            /\ run'[j].pc \in {run[j].pc, "updProcessing"}
            /\ run'[j].pc # run[j].pc => run[j].pc = "idle"
            /\ jobs'[j].status \in {jobs[j].status, "processing"}]_vars

\* C21 witness: the job added last is pending while the run of an earlier
\* job is under way
C21_Witness ==
  /\ Len(jobs) >= 2
  /\ jobs[Len(jobs)].status = "pending" /\ run[Len(jobs)].pc = "idle"
  /\ \E j \in JobIds : run[j].pc \in {"generate", "execute"}

\* task t was created and its row has been deleted
Deleted(t) == t <= nTasks /\ ~tasks[t].exists

\* the suspension points of a run: the generator call, the executor call
\* and the retry delay
SuspensionPcs == {"generate", "execute", "backoff"}

\* C22: an in-flight job is cancelled when its task is deleted: the run
\* notices the cancellation at its next suspension point and stops there,
\* and the task is not left in "processing".
C22_CancelledAtSuspensionPoint ==
  [][\A j \in JobIds :
       (Deleted(Task(j)) /\ jobs[j].status = "processing") =>
         /\ (run[j].pc \in SuspensionPcs /\ run'[j].pc # run[j].pc) =>
              run'[j].pc = "done"
         /\ tasks'[Task(j)].status # "processing"]_vars

\* C23: during a run a log entry is appended for each generation start,
\* generation failure, execution start, execution outcome and retry, in
\* order: each of these steps of a run makes the task's log one entry longer
\* and keeps the entries already there.
C23_RunAppendsLogEntries ==
  [][\A j \in JobIds :
       LET r == run[j]
           q == run'[j]
           t == Task(j)
           logged == \/ r.pc # "generate" /\ q.pc = "generate"
                     \/ r.pc = "generate" /\ q.pc # "generate"
                          /\ q.failures > r.failures
                     \/ r.pc # "execute" /\ q.pc = "execute"
                     \/ r.pc = "execute" /\ q.pc # "execute"
                     \/ r.pc # "backoff" /\ q.pc = "backoff"
       IN  (j \in DOMAIN run /\ logged) =>
             /\ Len(logs'[t]) = Len(logs[t]) + 1
             /\ SubSeq(logs'[t], 1, Len(logs[t])) = logs[t]]_vars

\* C24: attempt records are upserted, not duplicated: a write of record
\* (task, number) leaves one record under that key and no other key changes
\* hands, and the written record holds exactly the fields of the write, a
\* field the write omits being null afterwards.
C24_UpsertReplacesRecord ==
  [][\A t \in TaskIds, n \in AttemptNumbers :
       LET old == attempts[t][n]
           new == attempts'[t][n]
       IN  (new # old /\ new.exists) =>
             /\ Rows(attempts', t) = Rows(attempts, t) \cup {n}
             /\ new.status = "processing" =>
                  /\ new.generated_code = Null
                  /\ new.execution_result = NoResult
                  /\ new.error_message = Null
             /\ new.status = "executing" =>
                  /\ new.execution_result = NoResult
                  /\ new.error_message = Null
             /\ new.status \in {"completed", "chat_interaction"} =>
                  new.error_message = Null
             /\ (new.status = "failed" /\ new.execution_result = NoResult) =>
                  new.generated_code = Null]_vars

\* record 1 rewritten as "processing" by a later run, all other fields null
\* again, while record 2 of the earlier run is still there
C24_Witness ==
  \E t \in TaskIds :
    /\ attempts[t][1] = [exists |-> TRUE, status |-> "processing",
                         generated_code |-> Null,
                         execution_result |-> NoResult,
                         error_message |-> Null]
    /\ attempts[t][2].status = "failed"

\* the jobs ever queued for task t
JobsOf(t) == {j \in JobIds : jobs[j].task = t}

\* task t has moved past its attempt k: the record has its final status and
\* the run is at a later attempt or has ended
MovedPast(t, k) ==
  /\ attempts[t][k].status \in {"completed", "failed"}
  /\ \A j \in JobsOf(t) :
       \/ jobs[j].status \in {"completed", "failed"}
       \/ jobs[j].status = "processing" /\ run[j].attempt > k

\* C25: an attempt record is immutable once its task has moved past it:
\* for a task that was never continued (one job), after attempt k has its
\* final status and attempt k+1 has started or the run has ended, no write
\* changes record k.
C25_RecordImmutableOncePast ==
  [][\A t \in TaskIds, k \in AttemptNumbers :
       (Cardinality(JobsOf(t)) = 1 /\ MovedPast(t, k)
          /\ attempts'[t][k].exists) =>
         attempts'[t][k] = attempts[t][k]]_vars

\* the records of task t that are in flight
InFlight(as, t) ==
  {n \in AttemptNumbers : as[t][n].status \in {"processing", "executing"}}

\* C26: the attempts of one run are strictly sequential: the run writes the
\* "processing" record of attempt k+1 only after it has written the final
\* record of attempt k, and a task with one run never has two records in
\* "processing" or "executing" together.
C26_AttemptsSequential ==
  [][\A j \in DOMAIN run :
       LET r == run[j]
           t == Task(j)
       IN  /\ (r.pc = "recProcessing" /\ run'[j].pc = "generate") =>
                /\ r.recorded = r.attempt - 1
                /\ attempts'[t][r.attempt].status = "processing"
           /\ Cardinality(JobsOf(t)) = 1 =>
                Cardinality(InFlight(attempts', t)) <= 1]_vars

\* attempt 2 is in flight, the record of attempt 1 is final
C26_Witness ==
  \E j \in DOMAIN run :
    /\ run[j].pc = "generate" /\ run[j].attempt = 2 /\ run[j].recorded = 1
    /\ Cardinality(JobsOf(Task(j))) = 1
    /\ attempts[Task(j)][1].status = "failed"
    /\ InFlight(attempts, Task(j)) = {2}

\* C27: every step of a run is persisted before the next begins: the run
\* comes to record attempt 1 only by the step that writes the task's
\* "processing" status, to the generator only by the step that writes the
\* attempt's "processing" record, to the executor only by the step that
\* writes the "executing" record with the generated code, and to the task's
\* completion, the backoff or the next attempt only with the attempt's final
\* record written.
C27_PersistedBeforeNextStep ==
  [][\A j \in DOMAIN run :
       LET r == run[j]
           q == run'[j]
           t == Task(j)
           row == attempts'[t][r.attempt]
       IN  q.pc # r.pc =>
             /\ (q.pc = "recProcessing" /\ q.attempt = 1) =>
                  /\ r.pc = "updProcessing"
                  /\ tasks'[t].exists => tasks'[t].status = "processing"
             /\ q.pc = "generate" =>
                  r.pc = "recProcessing" /\ row.status = "processing"
             /\ q.pc = "execute" =>
                  /\ r.pc = "recExecuting"
                  /\ row.status = "executing"
                  /\ row.generated_code = r.generatedCode
                  /\ row.generated_code # Null
             /\ q.pc = "updCompleted" =>
                  q.recorded = r.attempt /\ row.status = "completed"
             /\ q.pc = "backoff" =>
                  q.recorded = r.attempt /\ row.status = "failed"
             /\ (q.pc = "recProcessing" /\ q.attempt > 1) =>
                  r.pc = "backoff" /\ r.recorded = r.attempt]_vars

\* the executor is running and the record it runs for says so
C27_Witness ==
  \E j \in DOMAIN run :
    /\ run[j].pc = "execute"
    /\ tasks[Task(j)].status = "processing"
    /\ attempts[Task(j)][run[j].attempt].status = "executing"
    /\ attempts[Task(j)][run[j].attempt].generated_code = run[j].generatedCode

\* C28: the terminal status of a job does not depend on that of its task:
\* when a run ends by success (task "completed") or by exhaustion (task
\* "awaiting_chat") the job becomes "completed" and gets its completion
\* timestamp.
C28_JobCompletedWhateverTheTask ==
  [][\A j \in DOMAIN run :
       (run[j].pc # "done" /\ run'[j].pc = "done"
          /\ run'[j].final \in {"completed", "awaiting_chat"}) =>
         /\ jobs[j].status = "processing"
         /\ jobs'[j].status = "completed"
         /\ jobs'[j].completedAt]_vars

\* a completed job whose task awaits chat
C28_Witness ==
  \E j \in DOMAIN run :
    /\ jobs[j].status = "completed" /\ jobs[j].completedAt
    /\ run[j].final = "awaiting_chat"
    /\ tasks[Task(j)].status = "awaiting_chat"

\* C29: each job is dispatched at most once, at most one drain loop is
\* active at a time, and the status of a job never goes back to "pending":
\* a run starts only for a job that was pending and had no run yet and makes
\* it "processing", no run returns to its start, and the processing flag is
\* set exactly while the one loop is active.
C29_DispatchedOnceByOneLoop ==
  [][/\ \A j \in DOMAIN jobs :
          /\ jobs'[j].status = "pending" => jobs[j].status = "pending"
          /\ run'[j].pc = "idle" => run[j].pc = "idle"
          /\ (run'[j].pc = "updProcessing" /\ run[j].pc # "updProcessing") =>
               /\ run[j].pc = "idle"
               /\ jobs[j].status = "pending"
               /\ jobs'[j].status = "processing"
     /\ loops' <= 1
     /\ processing' <=> (loops' = 1)]_vars

\* the drain loop is active after it has dispatched a job that has ended
\* since, one job is being processed and one is waiting
C29_Witness ==
  /\ loops = 1 /\ processing
  /\ \E i \in DOMAIN jobs, j \in DOMAIN jobs, k \in DOMAIN jobs :
       /\ jobs[i].status = "completed"
       /\ jobs[j].status = "processing"
       /\ jobs[k].status = "pending"

\* C30: when a run calls generateSeleniumCode, the backends are tried in
\* fallback order for every combination of selector, default model and
\* initialised backends: with a Gemini selector and Gemini initialised,
\* Gemini is invoked first and OpenAI second when Gemini fails and OpenAI is
\* initialised; whenever a backend is initialised some backend is invoked;
\* and the call fails with "No AI service available for code generation"
\* only when neither is.
C30_FallbackOrder ==
  \A j \in DOMAIN run :
    run[j].pc = "generate" =>
      \A model \in Selectors, defaultModel \in DefaultModels :
        \A geminiService \in BOOLEAN, openaiClient \in BOOLEAN :
          \A geminiOk \in BOOLEAN, openaiOk \in BOOLEAN :
            LET g == GenerateSeleniumCode(model, defaultModel, geminiService,
                                          openaiClient, geminiOk, openaiOk)
            IN  /\ (model \in GeminiSelectors /\ geminiService) =>
                     /\ g.invoked # <<>> /\ g.invoked[1] = "gemini"
                     /\ (~geminiOk /\ openaiClient) =>
                          g.invoked = <<"gemini", "openai">>
                /\ (geminiService \/ openaiClient) => g.invoked # <<>>
                /\ g.outcome = NoService =>
                     (~geminiService /\ ~openaiClient)

====
